---- MODULE Spec2Model ----
(***************************************************************************)
(* A model of the behaviour-tree engine of BehaviourTree.h.                *)
(*                                                                         *)
(* The tree is an arena of nodes 1..size below the Root decorator; node 1  *)
(* is the Root's child.  One call of a node's run() is computed by RunNode *)
(* as the SET of its possible outcomes: the outcome of a leaf and the      *)
(* outcome of Async's timed wait are the only nondeterministic choices of  *)
(* a tick.  The Root's loop is cut at its loop test, so one action is one  *)
(* call of the root child's run() (one tick).                              *)
(*                                                                         *)
(* log, and the hist field of every node, are history variables: they      *)
(* record what the calls of the current tick did and what the previous     *)
(* call of a node returned, and are never read by the engine.              *)
(*                                                                         *)
(* The stack leaves (PushToStack, PopFromStack) and the containers of      *)
(* ConcurrentStack.h and ConcurrentBlockingQueue.h are programs of their   *)
(* own, with their own variables and specifications: SpecLeaves, SpecStack,*)
(* SpecQueue, SpecBox and SpecAssign.  A member function of a container is *)
(* cut where it takes mutex_, tests its loop condition, waits and          *)
(* notifies; events is a history variable listing the completed calls.     *)
(***************************************************************************)
EXTENDS Integers, Sequences, FiniteSets, TLC

\* ---------------------------------------------------------------- bounds
MaxNodes == 3       \* nodes below Root
MaxCalls == 3       \* leaf invocations explored within one tick
MaxWaits == 2       \* Async launches explored within one tick
MaxIter  == 4       \* loop iterations explored within one Repeat/RepeatUntil run
MaxStack == 3       \* elements of the std::stack of the stack leaves
MaxItem  == 2       \* distinct non-null pointers
MaxThreads == 2     \* threads that use one container
MaxOps   == 4       \* calls the threads make between them
MaxCap   == 1       \* capacity of a container

\* ---------------------------------------------------------------- Status
ERROR   == "ERROR"
FAILURE == "FAILURE"
SUCCESS == "SUCCESS"
RUNNING == "RUNNING"
NOTRUN  == "NOTRUN"

Status == {ERROR, FAILURE, SUCCESS, RUNNING, NOTRUN}

\* what an action leaf may answer
LeafStatus == {ERROR, FAILURE, SUCCESS, RUNNING}

\* Repeat's "no limit" sentinel
NOT_FOUND == -1

\* no Tree.run has returned yet
NONE == "NONE"

\* how a call of run() ends when it does not return a Status: it never
\* returns, or an exception leaves it
HANG   == "HANG"
THROWN == "THROWN"

\* ---------------------------------------------------------------- trees
Kinds == {"Leaf", "Sequence", "Select", "Invert", "Succeed", "Fail",
          "Repeat", "RepeatUntil", "Async"}

Composites == {"Sequence", "Select"}

Decorators == {"Invert", "Succeed", "Fail", "Repeat", "RepeatUntil", "Async"}

\* The construction-time attributes of a node.  Only a class derived from
\* Node directly (a leaf) can pass dontSkip to Node's constructor: the
\* composites and decorators are default-constructed, and RepeatUntil drops
\* its neverSkip argument.  RepeatUntil's constructor stores any Status it
\* is given as _exitStatus.
NodeTypes ==
    [kind : {"Leaf"}, dontSkip : BOOLEAN, numRepeats : {0}, exitStatus : {NOTRUN}]
    \cup [kind : (Composites \cup {"Invert", "Succeed", "Fail", "Async"}),
          dontSkip : {FALSE}, numRepeats : {0}, exitStatus : {NOTRUN}]
    \cup [kind : {"Repeat"}, dontSkip : {FALSE},
          numRepeats : {NOT_FOUND, 2}, exitStatus : {NOTRUN}]
    \cup [kind : {"RepeatUntil"}, dontSkip : {FALSE},
          numRepeats : {0}, exitStatus : Status]

RECURSIVE OnPath(_, _, _)
\* a is i or an ancestor of i under the parent function p
OnPath(p, a, i) ==
    IF i = 0 THEN FALSE
    ELSE IF a = i THEN TRUE
    ELSE OnPath(p, a, p[i])

\* addChild/setChild calls in preorder: the parent of node i is on the path
\* from node 1 to node i-1
ParentFns(n) ==
    { p \in [1..n -> 0..(n-1)] :
        /\ p[1] = 0
        /\ \A i \in 2..n : p[i] >= 1 /\ OnPath(p, p[i], i - 1) }

RECURSIVE SortSet(_)
SortSet(S) ==
    IF S = {} THEN << >>
    ELSE LET m == CHOOSE x \in S : \A y \in S : x <= y
         IN  << m >> \o SortSet(S \ {m})

\* CompositeNode::children in insertion order / DecoratorNode::child
KidsOf(p, n) == [i \in 1..n |-> SortSet({c \in 1..n : p[c] = i})]

WellFormed(n, p, ty) ==
    \A i \in 1..n :
        LET k == Cardinality({c \in 1..n : p[c] = i})
        IN  /\ ty[i].kind = "Leaf" => k = 0
            /\ ty[i].kind \in Decorators => k = 1

Trees ==
    UNION { { [size |-> n, type |-> ty, kids |-> KidsOf(p, n)] :
                ty \in { t \in [1..n -> NodeTypes] : WellFormed(n, p, t) } } :
            <<n, p>> \in UNION { {n} \X ParentFns(n) : n \in 1..MaxNodes } }

VARIABLES
    tree,        \* the node graph built by setRootChild/addChildren/setChild
    completed,   \* Node::_completed of every node
    lastStatus,  \* Node::_lastStatus of every node
    pc,          \* where Tree.run / Root::run stands
    s,           \* Root::run's local s
    result,      \* what the latest Tree.run returned
    env,         \* what the leaves and the Async waits of this run can do
    hist,        \* history: per node, what its latest run() did
    log          \* history: the run() calls of the current tick

\* the containers: the std::stack of the stack leaves, ConcurrentStack,
\* ConcurrentBlockingQueue, and the threads that use them
VARIABLES
    stack,         \* StackNode::stack, the std::stack the stack leaves share
    item,          \* the T*& item of PushToStack / PopFromStack
    leafLog,       \* history: the latest run() of a stack leaf
    box,           \* the container's construction: max_size_, bounded_, timeout_
    stack_,        \* ConcurrentStack::stack_, bottom first
    queue_,        \* ConcurrentBlockingQueue::queue_, front first
    mutex_,        \* the thread that owns mutex_, or NOBODY
    queue_full_,   \* the threads blocked in a wait on queue_full_
    queue_empty_,  \* the threads blocked in a wait on queue_empty_
    thr,           \* every thread: its calls still to make and where it stands
    events         \* history: the operations in the order they took effect

treeVars == << tree, completed, lastStatus, pc, s, result, env, hist, log >>

boxVars == << stack, item, leafLog, box, stack_, queue_, mutex_, queue_full_,
              queue_empty_, thr, events >>

vars == << treeVars, boxVars >>

Nodes == 1..tree.size

Kind(n) == tree.type[n].kind

DontSkip(n) == tree.type[n].dontSkip

Kids(n) == tree.kids[n]

\* DecoratorNode::getChild
Child(n) == tree.kids[n][1]

\* ------------------------------------------------------- one call of run()
(***************************************************************************)
(* The state threaded through the calls of one tick:                       *)
(*   completed, lastStatus  the nodes' fields                              *)
(*   s        the status just obtained (the local s / the return value)    *)
(*   timeout  whether Async's latest wait_for timed out                    *)
(*   calls, waits  leaf invocations and Async launches so far in the tick  *)
(*   hang     the call never returns (a loop that repeats itself exactly)  *)
(*   thrown   an exception is propagating out of the call                  *)
(*   cur      history: the children consulted by the call in progress      *)
(*   hist, log  history, as the variables of the same names                *)
(***************************************************************************)
Start ==
    [completed |-> completed, lastStatus |-> lastStatus, s |-> ERROR,
     timeout |-> FALSE, calls |-> 0, waits |-> 0, hang |-> FALSE,
     thrown |-> FALSE,
     cur |-> << >>, hist |-> hist, log |-> << >>]

\* _lastStatus = v, in node n
SetLastStatus(st, n, v) == [st EXCEPT !.lastStatus[n] = v]

\* _completed = true, in node n
SetCompleted(st, n) == [st EXCEPT !.completed[n] = TRUE]

\* history: node c was consulted; ran tells whether its run() was called,
\* v is the status its parent obtained
Consulted(st, c, ran, v) ==
    [child |-> c, ran |-> ran, s |-> v,
     wasCompleted |-> st.completed[c],
     prevRet |-> st.hist[c].ret,
     doneRet |-> st.hist[c].doneRet]

\* the call in r does not return a Status
Stopped(r) == r.hang \/ r.thrown

\* how the call in r ends: the Status it returns, or HANG, or THROWN
Outcome(r) ==
    IF r.thrown THEN THROWN ELSE IF r.hang THEN HANG ELSE r.s

\* history: the call in r, of an Async, launched its child and its wait
\* timed out
TimedOut(n, r) ==
    /\ Kind(n) = "Async"
    /\ Len(r.cur) = 1
    /\ r.cur[1].ran
    /\ r.timeout

\* history: the entry of log for the call of n.run() that started in st and
\* ends in r
CallRecord(n, st, r) ==
    [node |-> n, first |-> Len(st.log), visits |-> r.cur,
     ret |-> Outcome(r),
     timedOut |-> TimedOut(n, r),
     prevRet |-> st.hist[n].ret,
     prevSucc |-> st.hist[n].succ,
     prevDropped |-> st.hist[n].dropped,
     wasCompleted |-> st.completed[n],
     isCompleted |-> r.completed[n]]

\* history: the call of n.run() that started in st returns in r
Returned(n, st, r) ==
    [r EXCEPT
        !.cur = st.cur,
        !.log = Append(@, CallRecord(n, st, r)),
        !.hist[n] = [ret |-> r.s,
                     doneRet |-> IF ~st.completed[n] /\ r.completed[n]
                                 THEN r.s ELSE @.doneRet,
                     succ |-> IF r.s = RUNNING
                              THEN { r.cur[i].child : i \in
                                       { j \in 1..Len(r.cur) : r.cur[j].s = SUCCESS } }
                              ELSE {},
                     dropped |-> IF TimedOut(n, r) THEN r.cur[1].s ELSE NONE]]

\* history: the call of n.run() that started in st never returns, or an
\* exception leaves it
Unfinished(n, st, r) ==
    [r EXCEPT !.cur = st.cur, !.log = Append(@, CallRecord(n, st, r))]

\* the loop body left everything it reads as it found it: every further
\* iteration does the same
Same(r, st) ==
    /\ r.completed = st.completed
    /\ r.lastStatus = st.lastStatus
    /\ r.calls = st.calls
    /\ r.waits = st.waits
    /\ r.s = st.s

RECURSIVE RunNode(_, _)
RECURSIVE SequenceFrom(_, _, _)
RECURSIVE SelectFrom(_, _, _, _)
RECURSIVE RepeatForever(_, _, _)
RECURSIVE RepeatTimes(_, _, _)
RECURSIVE UntilLoop(_, _, _, _)

\* s = child->getLastStatus()
Cached(st, c) ==
    [st EXCEPT !.s = st.lastStatus[c],
               !.cur = Append(@, Consulted(st, c, FALSE, st.lastStatus[c]))]

\* s = child->run()
Call(st, c) ==
    { [r EXCEPT !.cur = Append(@, Consulted(st, c, TRUE, Outcome(r)))] :
        r \in RunNode(c, st) }

\* RunAlways with the cache read pasted in place of the call
RunAlwaysFromCache(n, st, c) ==
    { SetLastStatus(Cached(st, c), n, st.lastStatus[c]) }

\* the dontSkip branch: s = child->run(); _lastStatus = s
RunAlways(n, st, c) ==
    { IF Stopped(r) THEN r ELSE SetLastStatus(r, n, r.s) : r \in Call(st, c) }

\* the branch of a child that may be skipped (Sequence, Invert, Succeed,
\* Fail, Repeat): the cached status of a completed child, else
\* s = child->run(); _lastStatus = s; if (s != RUNNING) _completed = true
RunOrCached(n, st, c) ==
    IF st.completed[c]
    THEN { Cached(st, c) }
    ELSE { IF Stopped(r) THEN r
           ELSE IF r.s # RUNNING THEN SetCompleted(SetLastStatus(r, n, r.s), n)
           ELSE SetLastStatus(r, n, r.s) :
             r \in Call(st, c) }

\* ---- leaf (an action leaf: any status the user's code returns, or an
\* exception it throws)
LeafRun(n, st) ==
    IF st.calls >= MaxCalls THEN {}
    ELSE { [st EXCEPT !.calls = @ + 1, !.s = o] : o \in env.leaf }
         \cup { [st EXCEPT !.calls = @ + 1, !.thrown = TRUE] : x \in env.throws }

\* ---- Sequence
\* SequenceSwitch with the FAILURE/ERROR case falling out of the switch
SequenceSwitchNoReturn(v) ==
    CASE v = SUCCESS -> "continue"
      [] OTHER -> "break"

\* the switch that ends the loop body of Sequence::run
SequenceSwitch(v) ==
    CASE v = RUNNING -> "break"
      [] v = SUCCESS -> "continue"
      [] v \in {FAILURE, ERROR} -> "return"
      [] OTHER -> "break"

\* after the non-dontSkip branch: if (s != SUCCESS) return s
SequenceEarlyReturn(v) == v # SUCCESS

SequenceFrom(n, i, st) ==
    IF Stopped(st) THEN { st }
    ELSE IF i > Len(Kids(n)) THEN { [st EXCEPT !.s = SUCCESS] }
    ELSE LET c == Kids(n)[i]
             after(r) ==
                IF Stopped(r) THEN { r }
                ELSE IF ~DontSkip(c) /\ SequenceEarlyReturn(r.s) THEN { r }
                ELSE IF SequenceSwitch(r.s) = "return" THEN { SetCompleted(r, n) }
                ELSE SequenceFrom(n, i + 1, r)
         IN  UNION { after(r) :
                     r \in IF DontSkip(c) THEN RunAlways(n, st, c)
                           ELSE RunOrCached(n, st, c) }

SequenceRun(n, st) == SequenceFrom(n, 1, st)

\* ---- Select
\* SelectHalts without the ERROR test
SelectHaltsOnSuccessOnly(v) == v = SUCCESS

\* if (s == SUCCESS || s == ERROR) return s
SelectHalts(v) == v \in {SUCCESS, ERROR}

SelectFrom(n, i, st, hasRunningChild) ==
    IF Stopped(st) THEN { st }
    ELSE IF i > Len(Kids(n))
    THEN IF ~hasRunningChild THEN { SetCompleted(st, n) }
         ELSE { [st EXCEPT !.s = RUNNING] }
    ELSE LET c == Kids(n)[i]
             after(r) ==
                IF Stopped(r) THEN { r }
                ELSE IF SelectHalts(r.s) THEN { r }
                ELSE SelectFrom(n, i + 1, r, hasRunningChild \/ r.s = RUNNING)
         IN  UNION { after(r) :
                     r \in IF ~DontSkip(c) /\ st.completed[c]
                           THEN { Cached(st, c) }
                           ELSE RunAlways(n, st, c) }

SelectRun(n, st) == SelectFrom(n, 1, [st EXCEPT !.s = FAILURE], FALSE)

\* ---- Invert, Succeed, Fail
\* a switch without 'case Status::FAILURE: return Status::SUCCESS;'
InvertedSuccessOnly(v) ==
    CASE v = SUCCESS -> FAILURE
      [] OTHER -> v

Inverted(v) ==
    CASE v = SUCCESS -> FAILURE
      [] v = FAILURE -> SUCCESS
      [] OTHER -> v

Succeeded(v) == IF v = ERROR \/ v = RUNNING THEN v ELSE SUCCESS

Failed(v) == IF v = ERROR \/ v = RUNNING THEN v ELSE FAILURE

\* the child's status as a decorator obtains it
DecoratorChild(n, st) ==
    IF DontSkip(Child(n)) THEN RunAlways(n, st, Child(n))
    ELSE RunOrCached(n, st, Child(n))

InvertRun(n, st) ==
    { IF Stopped(r) THEN r ELSE [r EXCEPT !.s = Inverted(r.s)] : r \in DecoratorChild(n, st) }

SucceedRun(n, st) ==
    { IF Stopped(r) THEN r ELSE [r EXCEPT !.s = Succeeded(r.s)] : r \in DecoratorChild(n, st) }

FailRun(n, st) ==
    { IF Stopped(r) THEN r ELSE [r EXCEPT !.s = Failed(r.s)] : r \in DecoratorChild(n, st) }

\* ---- Repeat
\* Repeat::iterate: the dontSkip branch does not record _lastStatus
Iterate(n, st) ==
    IF DontSkip(Child(n)) THEN Call(st, Child(n))
    ELSE RunOrCached(n, st, Child(n))

\* do { iterate(s); } while (s != ERROR && s != RUNNING);
RepeatForever(n, k, st) ==
    UNION { IF Stopped(r) THEN { r }
            ELSE IF r.s = ERROR \/ r.s = RUNNING THEN { r }
            ELSE IF Same(r, st) THEN { [r EXCEPT !.hang = TRUE] }
            ELSE IF k >= MaxIter THEN {}
            ELSE RepeatForever(n, k + 1, r) :
              r \in Iterate(n, st) }

\* for (int i = 0; i < _numRepeats; i++) { iterate(s); if (...) break; }
RepeatTimes(n, i, st) ==
    IF i >= tree.type[n].numRepeats THEN { st }
    ELSE UNION { IF Stopped(r) THEN { r }
                 ELSE IF r.s = ERROR \/ r.s = RUNNING THEN { r }
                 ELSE RepeatTimes(n, i + 1, r) :
                   r \in Iterate(n, st) }

RepeatRun(n, st) ==
    IF tree.type[n].numRepeats = NOT_FOUND
    THEN RepeatForever(n, 1, [st EXCEPT !.s = ERROR])
    ELSE RepeatTimes(n, 0, [st EXCEPT !.s = ERROR])

\* ---- RepeatUntil
\* while (s != _exitStatus && s != ERROR && s != RUNNING) { s = run(); ... }
\* mark: the loop of the non-dontSkip branch, which also sets _completed
UntilLoop(n, k, st, mark) ==
    IF Stopped(st) THEN { st }
    ELSE IF st.s = tree.type[n].exitStatus \/ st.s = ERROR \/ st.s = RUNNING
    THEN { st }
    ELSE IF k >= MaxIter THEN {}
    ELSE UNION { IF Stopped(r) THEN { r }
                 ELSE LET q == IF mark /\ r.s # RUNNING
                               THEN SetCompleted(SetLastStatus(r, n, r.s), n)
                               ELSE SetLastStatus(r, n, r.s)
                      IN  IF Same(q, st) THEN { [q EXCEPT !.hang = TRUE] }
                          ELSE UntilLoop(n, k + 1, q, mark) :
                   r \in Call(st, Child(n)) }

RepeatUntilRun(n, st) ==
    LET c == Child(n)
    IN  IF DontSkip(c)
        THEN UNION { UntilLoop(n, 1, r, FALSE) : r \in Call(st, c) }
        ELSE IF st.completed[c] THEN { Cached(st, c) }
        ELSE UNION { UntilLoop(n, 1, r, TRUE) : r \in Call(st, c) }

\* ---- Async
\* std::async(std::launch::async, child->run()) followed by wait_for: the
\* wait times out or not; either way the child's run has finished when
\* Async::run returns, because the destructor of the local future, the only
\* owner of the shared state of std::async, joins the thread
Launch(st, c) ==
    IF st.waits >= MaxWaits THEN {}
    ELSE { [r EXCEPT !.timeout = t] :
             r \in Call([st EXCEPT !.waits = @ + 1], c), t \in env.wait }

\* if (fut.wait_for(_statusPoolTime) == std::future_status::timeout)
\*     _lastStatus = RUNNING;
\* the future is destroyed without get(): what the child returned, or the
\* exception it threw, is dropped with it
WaitTimedOut(n, r) ==
    [SetLastStatus(r, n, RUNNING) EXCEPT !.s = RUNNING, !.thrown = FALSE]

AsyncRun(n, st) ==
    LET c == Child(n)
    IN  IF DontSkip(c)
        THEN { IF r.hang THEN r
               ELSE IF r.timeout THEN WaitTimedOut(n, r)
               ELSE IF r.thrown THEN r
               ELSE SetLastStatus(r, n, r.s) :
                 r \in Launch(st, c) }
        ELSE IF st.completed[c] THEN { Cached(st, c) }
        ELSE { IF r.hang THEN r
               ELSE IF r.timeout THEN WaitTimedOut(n, r)
               ELSE IF r.thrown THEN r
               ELSE SetCompleted(SetLastStatus(r, n, r.s), n) :
                 r \in Launch(st, c) }

\* ---- virtual Status run()
RunNode(n, st) ==
    LET st0 == [st EXCEPT !.cur = << >>]
        outs == CASE Kind(n) = "Leaf"        -> LeafRun(n, st0)
                  [] Kind(n) = "Sequence"    -> SequenceRun(n, st0)
                  [] Kind(n) = "Select"      -> SelectRun(n, st0)
                  [] Kind(n) = "Invert"      -> InvertRun(n, st0)
                  [] Kind(n) = "Succeed"     -> SucceedRun(n, st0)
                  [] Kind(n) = "Fail"        -> FailRun(n, st0)
                  [] Kind(n) = "Repeat"      -> RepeatRun(n, st0)
                  [] Kind(n) = "RepeatUntil" -> RepeatUntilRun(n, st0)
                  [] Kind(n) = "Async"       -> AsyncRun(n, st0)
    IN  { IF Stopped(r) THEN Unfinished(n, st, r) ELSE Returned(n, st, r) :
            r \in outs }

\* ------------------------------------------------------------ the program
\* no mutex owner
NOBODY == 0

\* a program that builds a tree constructs no container and starts no thread
NoBox ==
    /\ stack = << >>
    /\ item = 0
    /\ leafLog = << >>
    /\ box = << >>
    /\ stack_ = << >>
    /\ queue_ = << >>
    /\ mutex_ = NOBODY
    /\ queue_full_ = {}
    /\ queue_empty_ = {}
    /\ thr = << >>
    /\ events = << >>

\* a leaf returns any Status but NOTRUN or throws; a wait times out or not
AnyEnv == [leaf |-> LeafStatus, throws |-> {TRUE}, wait |-> BOOLEAN]

Init ==
    /\ tree \in Trees
    /\ env = AnyEnv
    /\ completed = [n \in 1..tree.size |-> FALSE]
    /\ lastStatus = [n \in 1..tree.size |-> NOTRUN]
    /\ pc = "idle"
    /\ s = NOTRUN
    /\ result = NONE
    /\ hist = [n \in 1..tree.size |->
                 [ret |-> NOTRUN, doneRet |-> NOTRUN, succ |-> {}, dropped |-> NONE]]
    /\ log = << >>
    /\ NoBox

\* getChild()->run() in Root::run: one tick of the tree; a call that never
\* returns, or that an exception leaves, ends the program's steps (pc "hang",
\* "thrown") with the fields the nodes wrote before
Tick ==
    \E r \in RunNode(1, Start) :
        /\ pc' = IF r.thrown THEN "thrown" ELSE IF r.hang THEN "hang" ELSE "test"
        /\ s' = IF Stopped(r) THEN s ELSE r.s
        /\ completed' = r.completed
        /\ lastStatus' = r.lastStatus
        /\ hist' = r.hist
        /\ log' = r.log

\* Tree.run -> Root::run: Status s = getChild()->run();
TreeRun ==
    /\ pc = "idle"
    /\ Tick
    /\ result' = NONE
    /\ UNCHANGED << tree, env, boxVars >>

\* while (s == RUNNING): the test holds
RootContinue ==
    /\ pc = "test"
    /\ s = RUNNING
    /\ pc' = "loop"
    /\ log' = << >>
    /\ UNCHANGED << tree, completed, lastStatus, s, result, env, hist, boxVars >>

\* s = getChild()->run(); in the loop
RootLoop ==
    /\ pc = "loop"
    /\ Tick
    /\ UNCHANGED << tree, result, env, boxVars >>

\* the test fails: return s, which Tree.run returns
RootReturn ==
    /\ pc = "test"
    /\ s # RUNNING
    /\ pc' = "idle"
    /\ result' = s
    /\ log' = << >>
    /\ UNCHANGED << tree, completed, lastStatus, s, env, hist, boxVars >>

Next == TreeRun \/ RootContinue \/ RootLoop \/ RootReturn

Spec == Init /\ [][Next]_vars

\* ---- the program with a child of Async that is slow and always terminal
\* every leaf ends with a terminal status, never throws, and every wait of
\* an Async times out: the execution outlasts the poll window
SlowEnv == [leaf |-> {SUCCESS, FAILURE, ERROR}, throws |-> {}, wait |-> {TRUE}]

\* root.setChild(&async); async wraps a leaf or a composite of leaves
SlowTrees ==
    { t \in Trees :
        /\ t.size >= 2
        /\ t.type[1].kind = "Async"
        /\ \A n \in 2..t.size : t.type[n].kind \in {"Leaf", "Sequence", "Select"} }

InitSlow ==
    /\ tree \in SlowTrees
    /\ env = SlowEnv
    /\ completed = [n \in 1..tree.size |-> FALSE]
    /\ lastStatus = [n \in 1..tree.size |-> NOTRUN]
    /\ pc = "idle"
    /\ s = NOTRUN
    /\ result = NONE
    /\ hist = [n \in 1..tree.size |->
                 [ret |-> NOTRUN, doneRet |-> NOTRUN, succ |-> {}, dropped |-> NONE]]
    /\ log = << >>
    /\ NoBox

\* Root::run's loop and the caller of Tree.run keep going: each step that
\* can be taken is eventually taken
SpecSlow == InitSlow /\ [][Next]_vars /\ WF_vars(Next)

\* ------------------------------------------------------- the stack leaves
\* a pointer that is nullptr; the other pointers are 1..MaxItem
NULL == 0

Items == 1..MaxItem

\* the contents a std::stack<T*> can have, bottom first
Stacks == UNION { [1..n -> Items \cup {NULL}] : n \in 0..MaxStack }

\* a dereference of nullptr ended the program
CRASHED == "CRASHED"

\* the program still runs
Alive == \A i \in 1..Len(leafLog) : leafLog[i].ret # CRASHED

\* PushToStack::run: this->stack.push(item); return SUCCESS
PushToStack(stk, it) ==
    { [stack |-> Append(stk, it), item |-> it, ret |-> SUCCESS] }

\* PopFromStack::run.  'item->doorNumber' dereferences the element just
\* read: with a null element the behaviour is undefined, and the build
\* either ends the program there or carries on
PopFromStack(stk, it) ==
    IF stk = << >> THEN { [stack |-> stk, item |-> it, ret |-> FAILURE] }
    ELSE { [stack |-> SubSeq(stk, 1, Len(stk) - 1), item |-> stk[Len(stk)],
            ret |-> SUCCESS] }
         \cup IF stk[Len(stk)] = NULL
              THEN { [stack |-> stk, item |-> NULL, ret |-> CRASHED] }
              ELSE {}

\* one run() of a stack leaf, with its history
LeafStep(op, outs) ==
    \E r \in outs :
        /\ stack' = r.stack
        /\ item' = r.item
        /\ leafLog' = << [op |-> op, stack |-> stack, item |-> item, ret |-> r.ret] >>
        /\ UNCHANGED << treeVars, box, stack_, queue_, mutex_, queue_full_,
                        queue_empty_, thr, events >>

PushToStackRun ==
    /\ Alive
    /\ Len(stack) < MaxStack
    /\ LeafStep("push", PushToStack(stack, item))

PopFromStackRun ==
    /\ Alive
    /\ LeafStep("pop", PopFromStack(stack, item))

\* a program that uses containers builds no tree
NoTree ==
    /\ tree = [size |-> 0, type |-> << >>, kids |-> << >>]
    /\ env = AnyEnv
    /\ completed = << >>
    /\ lastStatus = << >>
    /\ pc = "idle"
    /\ s = NOTRUN
    /\ result = NONE
    /\ hist = << >>
    /\ log = << >>

InitLeaves ==
    /\ NoTree
    /\ stack \in Stacks
    /\ item \in Items \cup {NULL}
    /\ leafLog = << >>
    /\ box = << >>
    /\ stack_ = << >>
    /\ queue_ = << >>
    /\ mutex_ = NOBODY
    /\ queue_full_ = {}
    /\ queue_empty_ = {}
    /\ thr = << >>
    /\ events = << >>

NextLeaves == PushToStackRun \/ PopFromStackRun

SpecLeaves == InitLeaves /\ [][NextLeaves]_vars

\* ------------------------------- ConcurrentStack, ConcurrentBlockingQueue
(***************************************************************************)
(* Both classes keep a container, max_size_, mutex_ and the condition      *)
(* variables queue_full_ and queue_empty_, and their push and pop have the *)
(* same shape.  box.kind tells which class the container is.  A thread     *)
(* makes thr[t].n calls of one member function, thr[t].op, and stands at   *)
(*   "call"    before the lock of a call, or done when n = 0               *)
(*   "test"    holding mutex_, at the condition of the while loop          *)
(*   "wait"    inside wait / wait_for, mutex_ released                     *)
(*   "woken"   leaving the wait, about to lock mutex_ again                *)
(*   "notify"  mutex_ released, at the notify_one that ends the call       *)
(* A step of a thread is one atomic section of the code between two such   *)
(* points.  thr[t].waited is history: the call in progress has waited.     *)
(***************************************************************************)
Threads == 1..MaxThreads

\* the item a thread pushes in the call it is making: no two pushes alike
Pushing(t) == 10 * t + thr[t].n

\* the items held, in the order they were inserted
Held == IF box.kind = "stack" THEN stack_ ELSE queue_

\* a test that lets one item more in
IsFullOffByOne == (box.kind = "stack" => box.bounded_) /\ Len(Held) > box.max_size_

\* while (bounded_ && stack_.size() >= max_size_)     ConcurrentStack
\* while (queue_.size() >= max_size_)                 ConcurrentBlockingQueue
IsFull == (box.kind = "stack" => box.bounded_) /\ Len(Held) >= box.max_size_

\* a top() that reads the other end of the stack
StackTopOldest(stk) == stk[1]

\* stack_.top(): the element inserted last
StackTop(stk) == stk[Len(stk)]

\* std::unique_lock<std::mutex> mlock(mutex_), at the start of a call and on
\* the way out of a wait
Lock(t) ==
    /\ \/ thr[t].pc = "call" /\ thr[t].n > 0
       \/ thr[t].pc = "woken"
    /\ mutex_ = NOBODY
    /\ mutex_' = t
    /\ thr' = [thr EXCEPT ![t].pc = "test"]
    /\ UNCHANGED << treeVars, stack, item, leafLog, box, stack_, queue_,
                    queue_full_, queue_empty_, events >>

\* the call of thread t takes effect: the container changes, mlock is
\* released and the thread goes on to its notify_one
Effect(t, stk, que, got) ==
    /\ stack_' = stk
    /\ queue_' = que
    /\ mutex_' = NOBODY
    /\ thr' = [thr EXCEPT ![t].pc = "notify"]
    /\ events' = Append(events, [op |-> thr[t].op, t |-> t, v |-> got,
                                 waited |-> thr[t].waited])
    /\ UNCHANGED << queue_full_, queue_empty_ >>

\* queue_full_.wait(mlock) and the like: mutex_ is released and the thread
\* blocks on the condition variable, in one atomic step
Wait(t, onFull) ==
    /\ mutex_' = NOBODY
    /\ thr' = [thr EXCEPT ![t].pc = "wait", ![t].waited = TRUE]
    /\ queue_full_' = IF onFull THEN queue_full_ \cup {t} ELSE queue_full_
    /\ queue_empty_' = IF onFull THEN queue_empty_ ELSE queue_empty_ \cup {t}
    /\ UNCHANGED << stack_, queue_, events >>

\* push: the loop on the full container, then emplace / push
PushTest(t) ==
    /\ thr[t].pc = "test" /\ thr[t].op = "push" /\ mutex_ = t
    /\ IF IsFull THEN Wait(t, TRUE)
       ELSE IF box.kind = "stack"
            THEN Effect(t, Append(stack_, Pushing(t)), queue_, Pushing(t))
            ELSE Effect(t, stack_, Append(queue_, Pushing(t)), Pushing(t))
    /\ UNCHANGED << treeVars, stack, item, leafLog, box >>

\* pop: the loop on the empty container, then top()/front() and pop()
PopTest(t) ==
    /\ thr[t].pc = "test" /\ thr[t].op = "pop" /\ mutex_ = t
    /\ IF Held = << >> THEN Wait(t, FALSE)
       ELSE IF box.kind = "stack"
            THEN Effect(t, SubSeq(stack_, 1, Len(stack_) - 1), queue_,
                        StackTop(stack_))
            ELSE Effect(t, stack_, Tail(queue_), Head(queue_))
    /\ UNCHANGED << treeVars, stack, item, leafLog, box >>

\* ConcurrentStack::top: the loop on the empty stack, then top()
TopTest(t) ==
    /\ thr[t].pc = "test" /\ thr[t].op = "top" /\ mutex_ = t
    /\ IF stack_ = << >> THEN Wait(t, FALSE)
       ELSE Effect(t, stack_, queue_, StackTop(stack_))
    /\ UNCHANGED << treeVars, stack, item, leafLog, box >>

\* a notify_one that unblocks no thread
NotifyOneLost(cv) == {NOBODY}

\* notify_one on a condition variable with the threads cv blocked on it: the
\* thread it unblocks, or NOBODY when none is blocked
NotifyOne(cv) == IF cv = {} THEN {NOBODY} ELSE cv

\* queue_empty_.notify_one() after a push, queue_full_.notify_one() after a
\* pop or a top; the call returns
Notify(t) ==
    /\ thr[t].pc = "notify"
    /\ \E u \in NotifyOne(IF thr[t].op = "push" THEN queue_empty_ ELSE queue_full_) :
          /\ thr' = [w \in Threads |->
                       IF w = t THEN [thr[t] EXCEPT !.pc = "call", !.n = @ - 1,
                                                  !.waited = FALSE]
                       ELSE IF w = u THEN [thr[w] EXCEPT !.pc = "woken"]
                       ELSE thr[w]]
          /\ queue_full_' = queue_full_ \ {u}
          /\ queue_empty_' = queue_empty_ \ {u}
    /\ UNCHANGED << treeVars, stack, item, leafLog, box, stack_, queue_,
                    mutex_, events >>

\* the wait of thread t is a wait_for: every wait of ConcurrentStack::push,
\* and those of its pop and top when timeout_ is not 0
Timed(t) ==
    /\ box.kind = "stack"
    /\ thr[t].op = "push" \/ box.timeout_ # 0

\* the thread leaves its wait without having been notified
Leave(t) ==
    /\ thr[t].pc = "wait"
    /\ thr' = [thr EXCEPT ![t].pc = "woken"]
    /\ queue_full_' = queue_full_ \ {t}
    /\ queue_empty_' = queue_empty_ \ {t}
    /\ UNCHANGED << treeVars, stack, item, leafLog, box, stack_, queue_,
                    mutex_, events >>

\* wait_for returns because timeout_ elapsed
Timeout(t) == Timed(t) /\ Leave(t)

\* a wait may return spuriously
SpuriousWake(t) == ~Timed(t) /\ Leave(t)

RECURSIVE CallsToMake(_, _)
\* the calls that the threads 1..k of th still have to make
CallsToMake(th, k) ==
    IF k = 0 THEN 0 ELSE th[k].n + CallsToMake(th, k - 1)

\* the threads started on a container just constructed: each makes calls of
\* one member function, MaxOps calls at most between them
Started(ops) ==
    /\ NoTree
    /\ stack = << >>
    /\ item = NULL
    /\ leafLog = << >>
    /\ stack_ = << >>
    /\ queue_ = << >>
    /\ mutex_ = NOBODY
    /\ queue_full_ = {}
    /\ queue_empty_ = {}
    /\ thr \in { th \in [Threads -> [op : ops, n : 0..MaxOps, pc : {"call"},
                                        waited : {FALSE}]] :
                   CallsToMake(th, MaxThreads) <= MaxOps }
    /\ events = << >>

\* ConcurrentStack(capacity, ms): max_size_(capacity), bounded_(capacity > 0)
InitStack ==
    /\ box \in { [kind |-> "stack", max_size_ |-> c, bounded_ |-> c > 0,
                  timeout_ |-> ms] : c \in 0..MaxCap, ms \in {0, 500} }
    /\ Started({"push", "pop", "top"})

NextStack ==
    \E t \in Threads :
        \/ Lock(t)
        \/ PushTest(t)
        \/ PopTest(t)
        \/ TopTest(t)
        \/ Notify(t)
        \/ Timeout(t)
        \/ SpuriousWake(t)

SpecStack == InitStack /\ [][NextStack]_vars

\* every thread is scheduled again and again, obtains mutex_ if it is free
\* again and again, and a timeout elapses; no wait has to return spuriously
Fair(t) ==
    /\ SF_vars(Lock(t))
    /\ WF_vars(PushTest(t) \/ PopTest(t) \/ TopTest(t) \/ Notify(t) \/ Timeout(t))

SpecStackFair == SpecStack /\ \A t \in Threads : Fair(t)

\* ConcurrentBlockingQueue(capacity): max_size_(capacity)
InitQueue ==
    /\ box \in { [kind |-> "queue", max_size_ |-> c] : c \in 1..MaxCap }
    /\ Started({"push", "pop"})

NextQueue ==
    \E t \in Threads :
        \/ Lock(t)
        \/ PushTest(t)
        \/ PopTest(t)
        \/ Notify(t)
        \/ SpuriousWake(t)

SpecQueue == InitQueue /\ [][NextQueue]_vars

SpecQueueFair == SpecQueue /\ \A t \in Threads : Fair(t)

\* either container
InitBox == InitStack \/ InitQueue

SpecBox == InitBox /\ [][NextStack]_vars

\* ---------------------------------------------- ConcurrentStack::operator=
\* One thread evaluates 'dst = rhs'.  stack_, mutex_ and box are dst's
\* members; box.rhs holds the members of rhs that operator= reads and
\* box.self says that rhs is dst itself.  thr[1].pc is the position of the
\* thread inside operator=.
ASSIGNER == 1

\* the contents of a ConcurrentStack of capacity c that pushes have built
Built(c) ==
    UNION { [1..n -> Items] : n \in 0..(IF c > 0 THEN c ELSE MaxStack) }

InitAssign ==
    /\ NoTree
    /\ stack = << >>
    /\ item = NULL
    /\ leafLog = << >>
    /\ queue_ = << >>
    /\ mutex_ = NOBODY
    /\ queue_full_ = {}
    /\ queue_empty_ = {}
    /\ events = << >>
    /\ thr = << [op |-> "operator=", n |-> 1, pc |-> "call",
                 waited |-> FALSE] >>
    /\ \E c \in 0..MaxCap, rc \in 0..MaxCap, self \in BOOLEAN :
         /\ stack_ \in Built(c)
         /\ \E rs \in Built(rc) :
              /\ self => (rc = c /\ rs = stack_)
              /\ box = [kind |-> "assign", max_size_ |-> c,
                        bounded_ |-> c > 0, timeout_ |-> 0, self |-> self,
                        rhs |-> [stack_ |-> rs, max_size_ |-> rc,
                                 bounded_ |-> rc > 0]]

\* line 38: std::lock_guard<std::mutex> mlock(mutex_)
AssignLock ==
    /\ thr[ASSIGNER].pc = "call"
    /\ mutex_ = NOBODY
    /\ mutex_' = ASSIGNER
    /\ thr' = [thr EXCEPT ![ASSIGNER].pc = "locked"]
    /\ UNCHANGED << treeVars, stack, item, leafLog, box, stack_, queue_,
                    queue_full_, queue_empty_, events >>

\* line 39: if (this == &rhs) return *this; the lock_guard releases mutex_
AssignSelf ==
    /\ thr[ASSIGNER].pc = "locked"
    /\ box.self
    /\ mutex_' = NOBODY
    /\ thr' = [thr EXCEPT ![ASSIGNER].pc = "done"]
    /\ UNCHANGED << treeVars, stack, item, leafLog, box, stack_, queue_,
                    queue_full_, queue_empty_, events >>

\* pop() as called at line 41 removes the top element and leaves mutex_
\* released by its own mlock.unlock() (line 74)
AssignPopped ==
    /\ stack_' = SubSeq(stack_, 1, Len(stack_) - 1)
    /\ mutex_' = NOBODY
    /\ events' = Append(events, [op |-> "pop", t |-> ASSIGNER,
                                 v |-> StackTop(stack_), waited |-> FALSE])
    /\ UNCHANGED thr

\* line 41: while(!stack_.empty()) { pop(); }.  pop() begins by locking
\* mutex_ (line 64).  While the lock_guard of line 38 holds mutex_ the
\* thread locks a std::mutex it owns, which is undefined: the call blocks
\* for ever (a plain pthread mutex), throws std::system_error out of
\* operator= (an implementation that detects the deadlock), or carries on
\* (locking is a no-op in a program not linked to the thread library).
AssignPop ==
    /\ thr[ASSIGNER].pc = "locked"
    /\ ~box.self
    /\ stack_ # << >>
    /\ IF mutex_ = ASSIGNER
       THEN \/ /\ thr' = [thr EXCEPT ![ASSIGNER].pc = "blocked"]
               /\ UNCHANGED << stack_, mutex_, events >>
            \/ /\ thr' = [thr EXCEPT ![ASSIGNER].pc = "thrown"]
               /\ mutex_' = NOBODY
               /\ UNCHANGED << stack_, events >>
            \/ AssignPopped
       ELSE AssignPopped
    /\ UNCHANGED << treeVars, stack, item, leafLog, box, queue_,
                    queue_full_, queue_empty_ >>

\* lines 42-45: the members of rhs are copied and the lock_guard releases
\* mutex_ (where pop() carried on, it is released already and the build in
\* which that happens releases nothing)
AssignCopy ==
    /\ thr[ASSIGNER].pc = "locked"
    /\ ~box.self
    /\ stack_ = << >>
    /\ box' = [box EXCEPT !.bounded_ = box.rhs.bounded_,
                          !.max_size_ = box.rhs.max_size_]
    /\ stack_' = box.rhs.stack_
    /\ mutex_' = NOBODY
    /\ thr' = [thr EXCEPT ![ASSIGNER].pc = "done"]
    /\ UNCHANGED << treeVars, stack, item, leafLog, queue_,
                    queue_full_, queue_empty_, events >>

NextAssign == AssignLock \/ AssignSelf \/ AssignPop \/ AssignCopy

SpecAssign == InitAssign /\ [][NextAssign]_vars

\* ------------------------------------------------------------ properties
\* the run() calls of the current tick, in the order they returned
Calls == 1..Len(log)

\* the calls of the current tick made by a node of kind k
CallsOf(k) == { c \in Calls : Kind(log[c].node) = k }

\* the calls of the current tick, made by a node of kind k, that returned a
\* Status (no exception left them and they did not loop for ever)
ReturnsOf(k) == { c \in CallsOf(k) : log[c].ret \in Status }

\* the children consulted by call c, by position
Visits(c) == 1..Len(log[c].visits)

\* the calls that ran while call c was in progress
Within(c) == (log[c].first + 1)..(c - 1)

\* C1: Tree.run returns only SUCCESS, FAILURE or ERROR, never RUNNING or
\* NOTRUN, on every call (also a second call on a tree whose nodes are
\* completed, and with empty composites).
C1_TreeRunReturnsTerminal ==
    result \in {NONE, SUCCESS, FAILURE, ERROR}

\* C2: a node whose latest run() returned RUNNING has its run() invoked the
\* next time its parent consults it; it is never served from the completion
\* cache.
C2_RunningIsRevisited ==
    \A c \in Calls : \A i \in Visits(c) :
        log[c].visits[i].prevRet = RUNNING => log[c].visits[i].ran

\* C3: once a non-dontSkip node is completed, a parent that consults it does
\* not invoke its run() and obtains the status that the node's run() returned
\* when it completed.
C3_CompletedIsCached ==
    \A c \in Calls : \A i \in Visits(c) :
        LET v == log[c].visits[i]
        IN  (~DontSkip(v.child) /\ v.wasCompleted)
                => (~v.ran /\ v.s = v.doneRet)

\* C4: when a Sequence that returned RUNNING is run again, the children that
\* yielded SUCCESS in that earlier run are not executed again.
C4_SequenceResumes ==
    \A c \in CallsOf("Sequence") :
        log[c].prevRet = RUNNING =>
            \A i \in Visits(c) :
                log[c].visits[i].child \in log[c].prevSucc
                    => ~log[c].visits[i].ran

\* C5: in Sequence.run a child that yields RUNNING (dontSkip or not) is the
\* last one consulted and the Sequence returns RUNNING; a Select that saw a
\* RUNNING child returns RUNNING unless a later child made it halt.
C5_RunningStopsSequence ==
    /\ \A c \in CallsOf("Sequence") : \A i \in Visits(c) :
          log[c].visits[i].s = RUNNING
              => (i = Len(log[c].visits) /\ log[c].ret = RUNNING)
    /\ \A c \in ReturnsOf("Select") :
          (\E i \in Visits(c) : log[c].visits[i].s = RUNNING)
              => \/ log[c].ret = RUNNING
                 \/ /\ log[c].ret \in {SUCCESS, ERROR}
                    /\ log[c].visits[Len(log[c].visits)].s = log[c].ret

\* C6: Sequence.run consults its children in insertion order and, as soon as
\* one yields FAILURE or ERROR (dontSkip or not, run or cached), returns that
\* status; no later sibling is run during that call.
C6_SequenceStopsAtFailure ==
    \A c \in CallsOf("Sequence") :
        LET r == log[c]
            kids == Kids(r.node)
        IN  /\ Len(r.visits) <= Len(kids)
            /\ \A i \in Visits(c) : r.visits[i].child = kids[i]
            /\ \A i \in Visits(c) :
                  r.visits[i].s \in {FAILURE, ERROR} =>
                      /\ i = Len(r.visits)
                      /\ r.ret = r.visits[i].s
                      /\ \A j \in Within(c) : \A m \in (i + 1)..Len(kids) :
                            log[j].node # kids[m]

\* C6 happens: a Sequence of two or more children whose first child, a
\* dontSkip one, was run and failed, ending the call.
C6_Witness ==
    \E c \in CallsOf("Sequence") :
        /\ Len(Kids(log[c].node)) >= 2
        /\ Len(log[c].visits) = 1
        /\ DontSkip(log[c].visits[1].child)
        /\ log[c].visits[1].ran
        /\ log[c].visits[1].s = FAILURE
        /\ log[c].ret = FAILURE

\* C7: Select.run consults its children in insertion order and, as soon as
\* one yields SUCCESS or ERROR (dontSkip or not, run or cached), returns that
\* status; no later sibling is run during that call.
C7_SelectStopsAtSuccess ==
    \A c \in CallsOf("Select") :
        LET r == log[c]
            kids == Kids(r.node)
        IN  /\ Len(r.visits) <= Len(kids)
            /\ \A i \in Visits(c) : r.visits[i].child = kids[i]
            /\ \A i \in Visits(c) :
                  r.visits[i].s \in {SUCCESS, ERROR} =>
                      /\ i = Len(r.visits)
                      /\ r.ret = r.visits[i].s
                      /\ \A j \in Within(c) : \A m \in (i + 1)..Len(kids) :
                            log[j].node # kids[m]

\* C7 happens: a Select of two or more children whose first child was run
\* and yielded ERROR, ending the call.
C7_Witness ==
    \E c \in CallsOf("Select") :
        /\ Len(Kids(log[c].node)) >= 2
        /\ Len(log[c].visits) = 1
        /\ log[c].visits[1].ran
        /\ log[c].visits[1].s = ERROR
        /\ log[c].ret = ERROR

\* C8: Sequence.run returns SUCCESS exactly when every child yields SUCCESS
\* (an empty Sequence returns SUCCESS), and otherwise the status of the first
\* child that does not yield SUCCESS, for child statuses in SUCCESS, FAILURE,
\* ERROR, RUNNING.
C8_SequenceResult ==
    \A c \in CallsOf("Sequence") :
        LET r == log[c]
            bad == { i \in Visits(c) : r.visits[i].s # SUCCESS }
        IN  (\A i \in Visits(c) : r.visits[i].s \in LeafStatus) =>
                IF bad = {}
                THEN r.ret = SUCCESS /\ Len(r.visits) = Len(Kids(r.node))
                ELSE r.ret = r.visits[CHOOSE i \in bad : \A j \in bad : i <= j].s

\* C9: a Select none of whose children yields SUCCESS or ERROR consults all
\* its children and returns RUNNING, without marking itself completed, if one
\* of them was RUNNING, else returns FAILURE and is completed; an empty
\* Select yields FAILURE whether run or read from the cache by its parent.
C9_SelectResult ==
    /\ \A c \in ReturnsOf("Select") :
          LET r == log[c]
          IN  (\A i \in Visits(c) : r.visits[i].s \notin {SUCCESS, ERROR}) =>
                  /\ Len(r.visits) = Len(Kids(r.node))
                  /\ IF \E i \in Visits(c) : r.visits[i].s = RUNNING
                     THEN r.ret = RUNNING /\ r.isCompleted = r.wasCompleted
                     ELSE r.ret = FAILURE /\ r.isCompleted
    /\ \A c \in Calls : \A i \in Visits(c) :
          LET v == log[c].visits[i]
          IN  (Kind(v.child) = "Select" /\ Kids(v.child) = << >>)
                  => v.s = FAILURE

\* C10: every time a composite or decorator consults a dontSkip child, the
\* child's run() is invoked.
C10_DontSkipAlwaysRuns ==
    \A c \in Calls : \A i \in Visits(c) :
        DontSkip(log[c].visits[i].child) => log[c].visits[i].ran

\* C10 happens: a dontSkip child whose previous run() ended with a terminal
\* status is consulted again, and run again.
C10_Witness ==
    \E c \in Calls : \E i \in Visits(c) :
        /\ DontSkip(log[c].visits[i].child)
        /\ log[c].visits[i].prevRet \in {SUCCESS, FAILURE, ERROR}
        /\ log[c].visits[i].ran

\* C11: when the wait of an Async timed out on a launch whose computation
\* ends with a terminal status, the next run() of that Async does not execute
\* the child again and reports the status of that computation.
C11_PendingResultReported ==
    \A c \in CallsOf("Async") :
        log[c].prevDropped \in {SUCCESS, FAILURE, ERROR} =>
            /\ \A i \in Visits(c) : ~log[c].visits[i].ran
            /\ log[c].ret = log[c].prevDropped

\* C12: when the wait of an Async timed out, Async.run returns RUNNING while
\* the execution of the child it launched is still in progress: that
\* execution has not ended when the call returns.
C12_ReturnsBeforeChildEnds ==
    \A c \in CallsOf("Async") :
        log[c].timedOut =>
            /\ log[c].ret = RUNNING
            /\ \A j \in Within(c) : log[j].node # Child(log[c].node)

\* C13: when the child launched by an Async ends within the poll window with
\* SUCCESS, FAILURE, ERROR or RUNNING, Async.run returns that status, leaves
\* itself completed if the status is terminal, and does not change its
\* completion if the status is RUNNING.
C13_AsyncInTime ==
    \A c \in ReturnsOf("Async") : \A i \in Visits(c) :
        LET r == log[c]
            v == r.visits[i]
        IN  (v.ran /\ ~r.timedOut /\ v.s \in LeafStatus) =>
                /\ r.ret = v.s
                /\ v.s # RUNNING => r.isCompleted
                /\ v.s = RUNNING => (r.isCompleted = r.wasCompleted)

\* C14: with an Async that wraps a child (leaf or composite of leaves) whose
\* every execution outlasts the poll window and ends with a terminal status,
\* Root's loop sees RUNNING only finitely many times: every Tree.run
\* eventually returns.
C14_TreeRunEventuallyReturns ==
    []<>(pc = "idle")

\* C15: when the execution of the child launched by an Async throws,
\* Async.run returns ERROR: the exception neither leaves Async.run nor is
\* replaced by another status.
C15_AsyncFaultIsError ==
    \A c \in CallsOf("Async") : \A i \in Visits(c) :
        log[c].visits[i].s = THROWN => log[c].ret = ERROR

\* C16: every call of Invert.run that returns consults its child once and
\* returns FAILURE when the child's status is SUCCESS, SUCCESS when it is
\* FAILURE, and the child's status itself when it is RUNNING or ERROR,
\* whether the child was run or read from the completion cache.
C16_InvertResult ==
    \A c \in ReturnsOf("Invert") :
        LET r == log[c]
        IN  /\ Len(r.visits) = 1
            /\ r.visits[1].child = Child(r.node)
            /\ r.visits[1].s = SUCCESS => r.ret = FAILURE
            /\ r.visits[1].s = FAILURE => r.ret = SUCCESS
            /\ r.visits[1].s \in {RUNNING, ERROR} => r.ret = r.visits[1].s

\* C16 happens: an Invert reads FAILURE from the completion cache of its
\* child and returns SUCCESS.
C16_Witness ==
    \E c \in ReturnsOf("Invert") :
        /\ ~log[c].visits[1].ran
        /\ log[c].visits[1].s = FAILURE
        /\ log[c].ret = SUCCESS

\* C17: an Invert whose child is an Invert returns the status that the inner
\* Invert's child yields, when that status is SUCCESS or FAILURE, both when it
\* runs the inner Invert and when it reads it from the completion cache.
C17_InvertInvolution ==
    \A c \in ReturnsOf("Invert") :
        LET r == log[c]
            inner == Child(r.node)
        IN  Kind(inner) = "Invert" =>
                LET own == IF r.visits[1].ran
                           THEN log[c - 1].visits[1].s
                           ELSE hist[Child(inner)].ret
                IN  own \in {SUCCESS, FAILURE} => r.ret = own

\* C18: Succeed.run returns SUCCESS, and Fail.run FAILURE, when the child's
\* status is neither RUNNING nor ERROR, and the child's status itself when it
\* is RUNNING or ERROR; a Sequence that reads from the cache a Succeed that
\* returned SUCCESS when it completed obtains SUCCESS and goes on.
C18_SucceedFailResult ==
    /\ \A c \in ReturnsOf("Succeed") :
          /\ Len(log[c].visits) = 1
          /\ log[c].ret = IF log[c].visits[1].s \in {RUNNING, ERROR}
                          THEN log[c].visits[1].s ELSE SUCCESS
    /\ \A c \in ReturnsOf("Fail") :
          /\ Len(log[c].visits) = 1
          /\ log[c].ret = IF log[c].visits[1].s \in {RUNNING, ERROR}
                          THEN log[c].visits[1].s ELSE FAILURE
    /\ \A c \in ReturnsOf("Sequence") : \A i \in Visits(c) :
          LET v == log[c].visits[i]
          IN  (Kind(v.child) = "Succeed" /\ ~v.ran /\ v.doneRet = SUCCESS) =>
                  /\ v.s = SUCCESS
                  /\ i = Len(log[c].visits) => log[c].ret = SUCCESS

\* C19: a call of Repeat(n).run, n >= 1, that returns invokes its child's
\* run once per iteration: n times, returning the status of the n-th
\* invocation, when no invocation yields ERROR or RUNNING, and otherwise k
\* times, returning the status of the k-th invocation, the first that yields
\* ERROR or RUNNING.
C19_RepeatTimes ==
    \A c \in ReturnsOf("Repeat") :
        LET r == log[c]
            n == tree.type[r.node].numRepeats
            stop == { i \in Visits(c) : r.visits[i].s \in {ERROR, RUNNING} }
            last == Len(r.visits)
        IN  n >= 1 =>
                /\ \A i \in Visits(c) : r.visits[i].ran
                /\ last >= 1
                /\ r.ret = r.visits[last].s
                /\ IF stop = {} THEN last = n ELSE stop = {last}

\* C20: a call of run() of an unbounded Repeat invokes its child's run on
\* every iteration of its loop, so it never loops without running the child;
\* when it returns, it returns ERROR or RUNNING, the status of its last
\* invocation of the child and the first to be ERROR or RUNNING.
C20_RepeatForever ==
    \A c \in CallsOf("Repeat") :
        LET r == log[c]
            stop == { i \in Visits(c) : r.visits[i].s \in {ERROR, RUNNING} }
            last == Len(r.visits)
        IN  tree.type[r.node].numRepeats = NOT_FOUND =>
                /\ \A i \in Visits(c) : r.visits[i].ran
                /\ r.ret \in Status =>
                      /\ r.ret \in {ERROR, RUNNING}
                      /\ stop = {last}
                      /\ r.ret = r.visits[last].s

\* C21: a call of RepeatUntil(exitStatus).run, exitStatus SUCCESS or FAILURE,
\* that returns invokes its child's run at every step and returns the
\* status of the last invocation, the first one that yields exitStatus,
\* ERROR or RUNNING; it returns no other status.
C21_RepeatUntilResult ==
    \A c \in ReturnsOf("RepeatUntil") :
        LET r == log[c]
            exit == tree.type[r.node].exitStatus
            stop == { i \in Visits(c) : r.visits[i].s \in {exit, ERROR, RUNNING} }
            last == Len(r.visits)
        IN  exit \in {SUCCESS, FAILURE} =>
                /\ \A i \in Visits(c) : r.visits[i].ran
                /\ stop = {last}
                /\ r.ret = r.visits[last].s
                /\ r.ret \in {exit, ERROR, RUNNING}

\* C22: a call of run() of a RepeatUntil constructed with the exit status
\* ERROR, RUNNING or NOTRUN returns ERROR without consulting its child.
C22_IllegalExitStatus ==
    \A c \in CallsOf("RepeatUntil") :
        tree.type[log[c].node].exitStatus \notin {SUCCESS, FAILURE} =>
            /\ log[c].ret = ERROR
            /\ log[c].visits = << >>

\* C27: in every reachable state, every composite or decorator that is
\* marked completed has a terminal lastStatus (SUCCESS, FAILURE or ERROR).
C27_CompletedIsTerminal ==
    \A n \in Nodes :
        (Kind(n) # "Leaf" /\ completed[n])
            => lastStatus[n] \in {SUCCESS, FAILURE, ERROR}

\* C23: a run() of the pop leaf on an empty stack returns FAILURE and leaves
\* the stack and the output slot as they were; on a non-empty stack it
\* returns SUCCESS, the output slot holds the element that was on top, and
\* the stack has lost exactly that element.
C23_PopFromStack ==
    \A i \in 1..Len(leafLog) :
        LET l == leafLog[i]
        IN  l.op = "pop" =>
                IF l.stack = << >>
                THEN l.ret = FAILURE /\ stack = l.stack /\ item = l.item
                ELSE /\ l.ret = SUCCESS
                     /\ item = l.stack[Len(l.stack)]
                     /\ Append(stack, item) = l.stack

RECURSIVE Lifo(_)
\* the items a last-in first-out store holds after the first k operations
\* of events
Lifo(k) ==
    IF k = 0 THEN << >>
    ELSE LET before == Lifo(k - 1)
         IN  CASE events[k].op = "push" -> Append(before, events[k].v)
               [] events[k].op = "pop" -> SubSeq(before, 1, Len(before) - 1)
               [] OTHER -> before

\* C24: every top and every pop of a ConcurrentStack returns the item
\* pushed most recently among those not yet popped, a top removes nothing
\* and a pop removes the item it returns: successive pops return the items
\* in the reverse of the order of their pushes.
C24_StackIsLifo ==
    box.kind = "stack" =>
        /\ stack_ = Lifo(Len(events))
        /\ \A k \in 1..Len(events) :
              events[k].op \in {"pop", "top"} =>
                  /\ Lifo(k - 1) # << >>
                  /\ events[k].v = Lifo(k - 1)[Len(Lifo(k - 1))]

\* C24 happens: two pushes, then two pops that return the second item
\* pushed and then the first.
C24_Witness ==
    /\ box.kind = "stack"
    /\ Len(events) = 4
    /\ events[1].op = "push" /\ events[2].op = "push"
    /\ events[3].op = "pop" /\ events[3].v = events[2].v
    /\ events[4].op = "pop" /\ events[4].v = events[1].v

\* C25: in every reachable state, under every interleaving of the threads
\* that push and pop, a bounded ConcurrentStack and a ConcurrentBlockingQueue
\* hold no more items than their capacity.
C25_WithinCapacity ==
    /\ (box.kind = "stack" /\ box.max_size_ > 0) => Len(stack_) <= box.max_size_
    /\ box.kind = "queue" => Len(queue_) <= box.max_size_

\* C25 happens: a push that found the container full and waited has
\* inserted its item after a pop made room, and the container is full again.
C25_Witness ==
    /\ Len(events) >= 3
    /\ events[Len(events)].op = "push"
    /\ events[Len(events)].waited
    /\ events[Len(events) - 1].op = "pop"
    /\ Len(Held) = box.max_size_

\* C26: a pop of a ConcurrentStack constructed with a non-zero timeout that
\* waits on the empty stack returns, unless the stack stops being empty.
C26_PopTimesOut ==
    \A t \in Threads :
        (box.kind = "stack" /\ box.timeout_ # 0 /\ thr[t].op = "pop"
             /\ thr[t].pc = "wait")
            ~> (thr[t].pc = "call" \/ stack_ # << >>)

\* C28: an assignment of one ConcurrentStack to another always completes: it
\* neither blocks on the destination's own mutex nor leaves operator= by an
\* exception, and once it has returned the destination holds a copy of the
\* source's items, whatever the destination held before.
C28_AssignCompletes ==
    box.kind = "assign" =>
        /\ thr[ASSIGNER].pc \notin {"blocked", "thrown"}
        /\ thr[ASSIGNER].pc = "done" => stack_ = box.rhs.stack_

RECURSIVE Fifo(_)
\* the items a first-in first-out store holds after the first k operations
\* of events
Fifo(k) ==
    IF k = 0 THEN << >>
    ELSE LET before == Fifo(k - 1)
         IN  CASE events[k].op = "push" -> Append(before, events[k].v)
               [] events[k].op = "pop" -> Tail(before)
               [] OTHER -> before

\* the call thread t is making is held up although the queue would let it go
Overslept(t) ==
    /\ thr[t].pc = "wait"
    /\ \/ thr[t].op = "pop" /\ queue_ # << >>
       \/ thr[t].op = "push" /\ Len(queue_) < box.max_size_

\* the threads have no call left of the member function op
Done(op) == \A t \in Threads : thr[t].op = op => thr[t].n = 0

\* no call is left unfinished that the calls of the other threads could
\* have let go: pops remain only with the queue empty and every push made,
\* pushes remain only with the queue full and every pop made
Served ==
    /\ Done("pop") \/ (queue_ = << >> /\ Done("push"))
    /\ Done("push") \/ (Len(queue_) >= box.max_size_ /\ Done("pop"))

====
